---- MODULE Spec2Model ----
(***************************************************************************)
(* Leaderboard worker (api-access-worker/flat-mode-f83b/src/index.ts):     *)
(* the fetch handler, its POST /api/scores reconciliation against the D1   *)
(* table "scores", and the name normalization it applies.                  *)
(*                                                                         *)
(* Strings are sequences of one-character strings.  Numbers are integers;  *)
(* the JavaScript value NaN is the token NaN below, and every comparison   *)
(* with it is false, as in JavaScript.                                     *)
(***************************************************************************)
EXTENDS Integers, Sequences, FiniteSets, TLC

VARIABLES
    table,      \* the rows of the D1 table "scores", in rowid order
    request,    \* the request handled by the last non-interleaved fetch
    response,   \* the response that fetch returned
    submitted,  \* history: the raw names of the submissions that were reconciled
    hist,       \* history: the reconciled submissions, in order
    pc,         \* per worker invocation: "idle", "write" (row looked up), "done"
    cur,        \* per worker invocation: the validated submission it carries
    existing,   \* per worker invocation: the row (or null) its SELECT returned
    reply,      \* per worker invocation: the response it returned
    base,       \* history: the table when the running batch of invocations began
    batch,      \* history: the submissions started since the system was last quiet
    started,    \* history: the number of invocations started
    raw,        \* a raw name string (normalization runs)
    norm1,      \* raw, normalized once
    norm2,      \* raw, normalized twice
    stage       \* normalization runs: "input", "once", "twice"

vars == <<table, request, response, submitted, hist, pc, cur, existing, reply,
          base, batch, started, raw, norm1, norm2, stage>>

(***************************************************************************)
(* Bounds                                                                  *)
(***************************************************************************)
\* longest raw name of the normalization runs (one more than the kept prefix)
MaxRawLen == 11
\* accepted submissions recorded in one history run
MaxSubmits == 4
\* worker invocations that may be in flight at once
MaxInFlight == 2
\* submissions started in one concurrent run
MaxStarted == 3

(***************************************************************************)
(* Strings: String.prototype.trim / toUpperCase / substring                *)
(***************************************************************************)
\* substring(0, 10): the number of characters kept
NameMax == 10

Whitespace == {" "}

ToUpperChar(c) ==
    CASE c = "a" -> "A"
      [] c = "b" -> "B"
      [] c = "c" -> "C"
      [] c = "e" -> "E"
      [] c = "i" -> "I"
      [] c = "l" -> "L"
      [] c = "o" -> "O"
      [] c = "r" -> "R"
      [] OTHER   -> c

RECURSIVE TrimStart(_)
TrimStart(s) ==
    IF s = <<>> THEN <<>>
    ELSE IF Head(s) \in Whitespace THEN TrimStart(Tail(s)) ELSE s

RECURSIVE TrimEnd(_)
TrimEnd(s) ==
    IF s = <<>> THEN <<>>
    ELSE IF s[Len(s)] \in Whitespace THEN TrimEnd(SubSeq(s, 1, Len(s) - 1)) ELSE s

trim(s) == TrimEnd(TrimStart(s))

toUpperCase(s) == [i \in 1..Len(s) |-> ToUpperChar(s[i])]

substring(s, n) == IF Len(s) <= n THEN s ELSE SubSeq(s, 1, n)

\* String(scoreData?.name || '').trim().toUpperCase().substring(0, 10);
\* an absent name is the empty string
normalize(s) == substring(toUpperCase(trim(s)), NameMax)

(***************************************************************************)
(* Numbers: parseInt(String(x ?? d))                                       *)
(***************************************************************************)
\* the value NaN: what parseInt returns for text that is no number
NaN == -1000

IsNaN(x) == x = NaN

\* a > b and a < b in JavaScript: false when either side is NaN
Gt(a, b) == ~IsNaN(a) /\ ~IsNaN(b) /\ a > b
Lt(a, b) == ~IsNaN(a) /\ ~IsNaN(b) /\ a < b

\* a JSON field of the body: absent, an integer, or text that is no number
Absent == [kind |-> "absent", v |-> 0]
Text   == [kind |-> "text", v |-> 0]
Num(n) == [kind |-> "num", v |-> n]
NaNLit == [kind |-> "nan", v |-> 0]

\* x ?? d
Coalesce(x, d) == IF x.kind = "absent" THEN d ELSE x

\* parseInt(String(x)) of an integer is that integer; of "abc" or "NaN" it is NaN
parseInt(x) == IF x.kind = "num" THEN x.v ELSE NaN

\* const newScore = parseInt(String(scoreData?.score_value ?? NaN));
ParseScore(body) == parseInt(Coalesce(body.score, NaNLit))

\* const timeScore = parseInt(String(scoreData?.time_score ?? 0));
ParseTime(body) == parseInt(Coalesce(body.time, Num(0)))

(***************************************************************************)
(* Responses                                                               *)
(***************************************************************************)
Response(status, body, text, results) ==
    [status |-> status, body |-> body, text |-> text, results |-> results]

\* jsonResponse({ success: true, message }), status 200
messageResponse(message) == Response(200, "message", message, <<>>)

\* jsonResponse({ success: true, results })
resultsResponse(results) == Response(200, "results", "", results)

\* errorResponse(message, status): { success: false, error: message }
errorResponse(message, status) == Response(status, "error", message, <<>>)

\* new Response(null, { headers: corsHeaders }): status 200, no body
handleOptions == Response(200, "none", "", <<>>)

\* new Response(null, { status: 200, headers: corsHeaders })
headResponse == Response(200, "none", "", <<>>)

NoResponse == Response(0, "none", "", <<>>)

(***************************************************************************)
(* The table "scores": no key, no uniqueness constraint (migration 0002)   *)
(***************************************************************************)
Row(name, score, time) == [name |-> name, score_value |-> score, time_score |-> time]

RECURSIVE SelectWhereName(_, _)
\* SELECT ... FROM scores WHERE name = ?: the matching rows, in rowid order
SelectWhereName(tbl, name) ==
    IF tbl = <<>> THEN <<>>
    ELSE IF Head(tbl).name = name
         THEN <<Head(tbl)>> \o SelectWhereName(Tail(tbl), name)
         ELSE SelectWhereName(Tail(tbl), name)

\* .first(): the first matching row, or null (the empty sequence)
First(rows) == IF rows = <<>> THEN <<>> ELSE <<Head(rows)>>

\* variant: the statement of the earlier worker, which sets score_value only
UpdateScoreOnly(tbl, newScore, timeScore, name) ==
    [i \in DOMAIN tbl |->
        IF tbl[i].name = name
        THEN [tbl[i] EXCEPT !.score_value = newScore]
        ELSE tbl[i]]

\* UPDATE scores SET score_value = ?, time_score = ? WHERE name = ?
UpdateScoreAndTime(tbl, newScore, timeScore, name) ==
    [i \in DOMAIN tbl |->
        IF tbl[i].name = name
        THEN [tbl[i] EXCEPT !.score_value = newScore, !.time_score = timeScore]
        ELSE tbl[i]]

\* variant: the statement without its WHERE clause
UpdateTimeEveryRow(tbl, timeScore, name) ==
    [i \in DOMAIN tbl |-> [tbl[i] EXCEPT !.time_score = timeScore]]

\* UPDATE scores SET time_score = ? WHERE name = ?
UpdateTime(tbl, timeScore, name) ==
    [i \in DOMAIN tbl |->
        IF tbl[i].name = name
        THEN [tbl[i] EXCEPT !.time_score = timeScore]
        ELSE tbl[i]]

\* variant: the insert of the earlier worker, which leaves time_score to its
\* column default
InsertRowNoTime(tbl, name, newScore, timeScore) ==
    Append(tbl, [name |-> name, score_value |-> newScore, time_score |-> 0])

\* variant: a leaderboard capped at two rows, the oldest row evicted
InsertRowEvicting(tbl, name, newScore, timeScore) ==
    LET t == Append(tbl, Row(name, newScore, timeScore))
    IN  IF Len(t) > 2 THEN Tail(t) ELSE t

\* INSERT INTO scores (name, score_value, time_score) VALUES (?, ?, ?)
InsertRow(tbl, name, newScore, timeScore) ==
    Append(tbl, Row(name, newScore, timeScore))

\* variant: the query of the first worker, which returned the best rows only
LeaderboardsLimited(tbl) ==
    LET n == Len(tbl)
        Orders == {p \in [1..n -> 1..n] : \A i, j \in 1..n : i # j => p[i] # p[j]}
        Sorted(p) == \A i \in 1..n : \A j \in 1..n :
                        i < j => tbl[p[i]].score_value >= tbl[p[j]].score_value
        Limit == 2
    IN  {[i \in 1..(IF n < Limit THEN n ELSE Limit) |-> tbl[p[i]]] :
            p \in {q \in Orders : Sorted(q)}}

\* SELECT ... ORDER BY score_value DESC: every order of the rows that is
\* non-increasing in score_value (the order of ties is the engine's choice)
Leaderboards(tbl) ==
    LET n == Len(tbl)
        Orders == {p \in [1..n -> 1..n] : \A i, j \in 1..n : i # j => p[i] # p[j]}
        Sorted(p) == \A i \in 1..n : \A j \in 1..n :
                        i < j => tbl[p[i]].score_value >= tbl[p[j]].score_value
    IN  {[i \in 1..n |-> tbl[p[i]]] : p \in {q \in Orders : Sorted(q)}}

(***************************************************************************)
(* fetch, up to its first storage statement                                *)
(***************************************************************************)
\* variant: a missing header let through
IncludesJsonOrMissing(contentType) ==
    contentType \in {"", "application/json", "application/json;charset=UTF-8"}

\* contentType.includes('application/json'); "" is a missing header
IncludesJson(contentType) ==
    contentType \in {"application/json", "application/json;charset=UTF-8"}

\* variant: only the paths of the two routes
StartsWithApiRoute(pathname) ==
    pathname \in {"/api/leaderboard", "/api/scores"}

\* url.pathname.startsWith('/api/')
StartsWithApi(pathname) ==
    pathname \in {"/api/leaderboard", "/api/scores", "/api/other"}

NoSubmission == [name |-> <<>>, newScore |-> 0, timeScore |-> 0]

Respond(resp) == [kind |-> "respond", resp |-> resp, sub |-> NoSubmission]

\* variant: the score checked before the name
ValidateScoreFirst(body) ==
    LET name      == normalize(body.name)
        newScore  == ParseScore(body)
        timeScore == ParseTime(body)
    IN  IF IsNaN(newScore) \/ Lt(newScore, 0)
        THEN Respond(errorResponse("Invalid or missing score_value", 400))
        ELSE IF name = <<>>
        THEN Respond(errorResponse("Name is required", 400))
        ELSE [kind |-> "submit", resp |-> NoResponse,
              sub |-> [name |-> name, newScore |-> newScore, timeScore |-> timeScore]]

\* name, newScore and timeScore of a parsed body, then the two input checks
Validate(body) ==
    LET name      == normalize(body.name)
        newScore  == ParseScore(body)
        timeScore == ParseTime(body)
    IN  IF name = <<>>
        THEN Respond(errorResponse("Name is required", 400))
        ELSE IF IsNaN(newScore) \/ Lt(newScore, 0)
        THEN Respond(errorResponse("Invalid or missing score_value", 400))
        ELSE [kind |-> "submit", resp |-> NoResponse,
              sub |-> [name |-> name, newScore |-> newScore, timeScore |-> timeScore]]

\* variants of the dispatch order: the binding checked before the preflight
\* branch, or the HEAD branch placed after the routes
DispatchInOrder(req, bindingFirst, headLast) ==
    IF req.method = "OPTIONS" /\ ~(bindingFirst /\ ~req.db)
    THEN Respond(handleOptions)
    ELSE IF ~req.db
    THEN Respond(errorResponse("Database binding not configured", 500))
    ELSE IF req.path = "/api/leaderboard" /\ req.method = "GET"
    THEN [kind |-> "leaderboard", resp |-> NoResponse, sub |-> NoSubmission]
    ELSE IF req.method = "HEAD" /\ ~headLast THEN Respond(headResponse)
    ELSE IF req.path = "/api/scores" /\ req.method = "POST"
    THEN IF ~IncludesJson(req.contentType)
         THEN Respond(errorResponse("Request body must be JSON", 415))
         ELSE IF ~req.json
         THEN Respond(errorResponse("Invalid JSON body", 400))
         ELSE Validate(req.body)
    ELSE IF StartsWithApi(req.path)
    THEN Respond(errorResponse(
            "API Endpoint Not Found: " \o req.method \o " " \o req.path, 404))
    ELSE IF req.method = "HEAD" THEN Respond(headResponse)
    ELSE Respond(errorResponse(
            "Internal Server Error: context is not defined", 500))

DispatchBindingFirst(req) == DispatchInOrder(req, TRUE, FALSE)

DispatchHeadLast(req) == DispatchInOrder(req, FALSE, TRUE)

\* The route of a request: a response that needs no storage, the leaderboard
\* query, or a validated submission to reconcile.
Dispatch(req) ==
    IF req.method = "OPTIONS" THEN Respond(handleOptions)
    ELSE IF ~req.db
    THEN Respond(errorResponse("Database binding not configured", 500))
    ELSE IF req.path = "/api/leaderboard" /\ req.method = "GET"
    THEN [kind |-> "leaderboard", resp |-> NoResponse, sub |-> NoSubmission]
    ELSE IF req.method = "HEAD" THEN Respond(headResponse)
    ELSE IF req.path = "/api/scores" /\ req.method = "POST"
    THEN IF ~IncludesJson(req.contentType)
         THEN Respond(errorResponse("Request body must be JSON", 415))
         ELSE IF ~req.json
         THEN Respond(errorResponse("Invalid JSON body", 400))
         ELSE Validate(req.body)
    ELSE IF StartsWithApi(req.path)
    THEN Respond(errorResponse(
            "API Endpoint Not Found: " \o req.method \o " " \o req.path, 404))
    \* `context` is not declared anywhere: evaluating it throws a
    \* ReferenceError, which the catch block turns into a 500
    ELSE Respond(errorResponse(
            "Internal Server Error: context is not defined", 500))

(***************************************************************************)
(* POST /api/scores: the decision on the row the lookup returned           *)
(***************************************************************************)
\* variant: the time branch taken for timeScore >= 0
ReconcileTimeNotNegative(ex, sub) ==
    IF ex # <<>>
    THEN IF Gt(sub.newScore, ex[1].score_value)
         THEN [stmt |-> "UPDATE score_value, time_score",
               resp |-> messageResponse("Score and time updated")]
         ELSE IF ~Lt(sub.timeScore, 0) /\ ~IsNaN(sub.timeScore)
         THEN [stmt |-> "UPDATE time_score",
               resp |-> messageResponse("Time score updated")]
         ELSE [stmt |-> "none", resp |-> messageResponse("No updates needed")]
    ELSE [stmt |-> "INSERT", resp |-> messageResponse("Score saved")]

\* variant: the score branch taken for newScore >= existingScore
ReconcileNotLower(ex, sub) ==
    IF ex # <<>>
    THEN IF ~Lt(sub.newScore, ex[1].score_value)
         THEN [stmt |-> "UPDATE score_value, time_score",
               resp |-> messageResponse("Score and time updated")]
         ELSE IF Gt(sub.timeScore, 0)
         THEN [stmt |-> "UPDATE time_score",
               resp |-> messageResponse("Time score updated")]
         ELSE [stmt |-> "none", resp |-> messageResponse("No updates needed")]
    ELSE [stmt |-> "INSERT", resp |-> messageResponse("Score saved")]

\* The statement to run and the response, given `ex`, the result of
\* .first() (a row in a one-element sequence, or the empty sequence).
Reconcile(ex, sub) ==
    IF ex # <<>>
    THEN LET existingScore == ex[1].score_value
         IN  IF Gt(sub.newScore, existingScore)
             THEN [stmt |-> "UPDATE score_value, time_score",
                   resp |-> messageResponse("Score and time updated")]
             ELSE IF Gt(sub.timeScore, 0)
             THEN [stmt |-> "UPDATE time_score",
                   resp |-> messageResponse("Time score updated")]
             ELSE [stmt |-> "none",
                   resp |-> messageResponse("No updates needed")]
    ELSE [stmt |-> "INSERT", resp |-> messageResponse("Score saved")]

\* The table after the statement has run
Run(stmt, sub, tbl) ==
    CASE stmt = "UPDATE score_value, time_score" ->
            UpdateScoreAndTime(tbl, sub.newScore, sub.timeScore, sub.name)
      [] stmt = "UPDATE time_score" -> UpdateTime(tbl, sub.timeScore, sub.name)
      [] stmt = "INSERT" -> InsertRow(tbl, sub.name, sub.newScore, sub.timeScore)
      [] OTHER -> tbl

\* const existing = await checkStmt.bind(name).first<ScoreEntry>();
Lookup(tbl, name) == First(SelectWhereName(tbl, name))

(***************************************************************************)
(* Requests                                                                *)
(***************************************************************************)
Body(name, score, time) == [name |-> name, score |-> score, time |-> time]

NoBody == Body(<<>>, Absent, Absent)

Request(method, path, db, contentType, json, body) ==
    [method |-> method, path |-> path, db |-> db,
     contentType |-> contentType, json |-> json, body |-> body]

NoRequest == Request("", "", FALSE, "", FALSE, NoBody)

\* a POST /api/scores with a JSON body, the storage binding present
Post(body) == Request("POST", "/api/scores", TRUE, "application/json", TRUE, body)

Posts(names, scores, times) ==
    {Post(Body(n, s, t)) : n \in names, s \in scores, t \in times}

Rep(c, n) == [i \in 1..n |-> c]

Alice  == <<" ", "a", "l", "i", "c", "e", " ">>
ALICE  == <<"A", "L", "I", "C", "E">>
Bob    == <<"b", "o", "b">>
BOB    == <<"B", "O", "B">>
CARL   == <<"C", "A", "R", "L">>
\* nine letters, a space, a letter; and its first ten characters
NineSpaceB == Rep("a", 9) \o <<" ", "b">>
NineSpace  == Rep("a", 9) \o <<" ">>
\* ten letters and an eleventh that differs
TenB == Rep("a", 10) \o <<"b">>
TenC == Rep("a", 10) \o <<"c">>

\* requests that reach no reconciliation, one per branch of the dispatch
OtherRequests ==
    { Request("OPTIONS", "/api/scores", FALSE, "", FALSE, NoBody),
      Request("GET", "/api/leaderboard", FALSE, "", FALSE, NoBody),
      Request("GET", "/api/leaderboard", TRUE, "", FALSE, NoBody),
      Request("HEAD", "/api/scores", TRUE, "", FALSE, NoBody),
      Request("POST", "/api/scores", TRUE, "", TRUE, Body(Bob, Num(42), Num(10))),
      Request("POST", "/api/scores", TRUE, "text/plain", TRUE, Body(Bob, Num(42), Num(10))),
      Request("POST", "/api/scores", TRUE, "application/json", FALSE, NoBody),
      Request("DELETE", "/api/scores", TRUE, "", FALSE, NoBody),
      Request("GET", "/api/other", TRUE, "", FALSE, NoBody),
      Request("GET", "/", TRUE, "", FALSE, NoBody) }

\* the non-interleaved runs: two players, every kind of score and time
\* field, and one request per way of failing the input checks
SeqRequests ==
    Posts({Alice, Bob}, {Num(42), Num(100)},
          {Absent, Text, Num(-1), Num(0), Num(10)})
    \cup Posts({<<>>, <<" ">>}, {Num(42)}, {Num(10)})
    \cup Posts({Bob}, {Absent, Text, Num(-5)}, {Num(10)})
    \cup {Post(Body(ALICE, Num(42), Num(0)))}
    \cup OtherRequests

\* the name runs: raw names that differ in case, outer whitespace or length
NameRequests ==
    Posts({Alice, ALICE, NineSpaceB, NineSpace, TenB, TenC},
          {Num(42)}, {Num(10)})

\* the history runs: one player's submissions in order, and another player
HistRequests ==
    Posts({CARL}, {Num(50), Num(100)}, {Num(-1), Num(0), Num(5), Num(20)})
    \cup {Post(Body(Bob, Num(50), Num(5)))}

\* the concurrent runs
ConcRequests ==
    Posts({Alice}, {Num(0), Num(42), Num(100)}, {Num(10)})
    \cup {Post(Body(ALICE, Num(42), Num(0))), Post(Body(Bob, Num(42), Num(0)))}
    \cup { Request("GET", "/api/leaderboard", TRUE, "", FALSE, NoBody),
           Post(Body(<<>>, Num(42), Num(10))) }

\* the routing runs: every method on every path with and without the storage
\* binding, every content type on POST /api/scores with a body that parses
\* or not and fields that pass the checks or not, each way of failing the
\* input checks, and a few submissions that fill the table
Methods == {"OPTIONS", "GET", "HEAD", "POST", "DELETE"}

Paths == {"/api/leaderboard", "/api/scores", "/api/other", "/"}

ContentTypes ==
    {"", "text/plain", "application/json", "application/json;charset=UTF-8"}

RouteRequests ==
    {Request(m, p, db, "", FALSE, NoBody) :
        m \in Methods, p \in Paths, db \in BOOLEAN}
    \cup {Request("POST", "/api/scores", TRUE, ct, js, b) :
            ct \in ContentTypes, js \in BOOLEAN,
            b \in {Body(Bob, Num(42), Num(10)), Body(<<>>, Num(-5), Absent)}}
    \cup {Request("POST", "/api/scores", FALSE, "application/json", TRUE,
                  Body(Bob, Num(42), Num(10)))}
    \cup Posts({<<>>, <<" ">>}, {Num(42), Text}, {Num(10)})
    \cup Posts({Bob}, {Absent, Text, Num(-5)}, {Absent, Num(10)})
    \cup { Post(Body(Alice, Num(42), Num(10))),
           Post(Body(Bob, Num(100), Num(0))),
           Post(Body(CARL, Num(42), Num(0))) }

(***************************************************************************)
(* One fetch, run without interleaving: the whole handler in one step      *)
(***************************************************************************)
Handle(req) ==
    LET d == Dispatch(req)
    IN  /\ request' = req
        /\ CASE d.kind = "respond" ->
                  /\ table' = table
                  /\ response' = d.resp
             [] d.kind = "leaderboard" ->
                  /\ table' = table
                  /\ \E results \in Leaderboards(table) :
                        response' = resultsResponse(results)
             [] d.kind = "submit" ->
                  LET rc == Reconcile(Lookup(table, d.sub.name), d.sub)
                  IN  /\ table' = Run(rc.stmt, d.sub, table)
                      /\ response' = rc.resp

concVars == <<pc, cur, existing, reply, base, batch, started>>
normVars == <<raw, norm1, norm2, stage>>

FetchSeq ==
    \E req \in SeqRequests :
        Handle(req) /\ UNCHANGED <<submitted, hist, concVars, normVars>>

FetchRoute ==
    \E req \in RouteRequests :
        Handle(req) /\ UNCHANGED <<submitted, hist, concVars, normVars>>

\* the same, recording the raw name of each submission that passed the checks
FetchName ==
    \E req \in NameRequests :
        /\ Handle(req)
        /\ submitted' = IF Dispatch(req).kind = "submit"
                        THEN submitted \cup {req.body.name} ELSE submitted
        /\ UNCHANGED <<hist, concVars, normVars>>

FetchHist ==
    \E req \in HistRequests :
        /\ Len(hist) < MaxSubmits
        /\ Handle(req)
        /\ hist' = Append(hist, Dispatch(req).sub)
        /\ UNCHANGED <<submitted, concVars, normVars>>

(***************************************************************************)
(* Concurrent invocations: a fetch suspends at each awaited D1 statement   *)
(***************************************************************************)
Slots == 1..MaxInFlight

Quiet == \A r \in Slots : pc[r] # "write"

\* From the entry of fetch to the completion of its first statement: the
\* dispatch, and the SELECT of the leaderboard or of the existing row.
Begin(r, req) ==
    LET d == Dispatch(req)
    IN  /\ pc[r] \in {"idle", "done"}
        /\ started < MaxStarted
        /\ started' = started + 1
        /\ cur' = [cur EXCEPT ![r] = d.sub]
        /\ table' = table
        /\ CASE d.kind = "respond" ->
                  /\ reply' = [reply EXCEPT ![r] = d.resp]
                  /\ pc' = [pc EXCEPT ![r] = "done"]
                  /\ UNCHANGED <<existing, base, batch>>
             [] d.kind = "leaderboard" ->
                  /\ \E results \in Leaderboards(table) :
                        reply' = [reply EXCEPT ![r] = resultsResponse(results)]
                  /\ pc' = [pc EXCEPT ![r] = "done"]
                  /\ UNCHANGED <<existing, base, batch>>
             [] d.kind = "submit" ->
                  /\ existing' = [existing EXCEPT ![r] = Lookup(table, d.sub.name)]
                  /\ reply' = [reply EXCEPT ![r] = NoResponse]
                  /\ pc' = [pc EXCEPT ![r] = "write"]
                  /\ base' = IF Quiet THEN table ELSE base
                  /\ batch' = IF Quiet THEN <<d.sub>> ELSE Append(batch, d.sub)
        /\ UNCHANGED <<request, response, submitted, hist, normVars>>

\* From the row the SELECT returned to the response: the UPDATE or INSERT
\* the decision picks, run against the table as it is now.
Write(r) ==
    LET rc == Reconcile(existing[r], cur[r])
    IN  /\ pc[r] = "write"
        /\ table' = Run(rc.stmt, cur[r], table)
        /\ reply' = [reply EXCEPT ![r] = rc.resp]
        /\ pc' = [pc EXCEPT ![r] = "done"]
        /\ UNCHANGED <<cur, existing, base, batch, started>>
        /\ UNCHANGED <<request, response, submitted, hist, normVars>>

(***************************************************************************)
(* Normalization runs: a raw name, normalized once and then again          *)
(***************************************************************************)
NormAlphabet == {" ", "a", "B"}

RawStrings == UNION {[1..n -> NormAlphabet] : n \in 0..MaxRawLen}

NormalizeOnce ==
    /\ stage = "input"
    /\ norm1' = normalize(raw)
    /\ stage' = "once"
    /\ UNCHANGED <<raw, norm2>>
    /\ UNCHANGED <<table, request, response, submitted, hist, concVars>>

NormalizeTwice ==
    /\ stage = "once"
    /\ norm2' = normalize(norm1)
    /\ stage' = "twice"
    /\ UNCHANGED <<raw, norm1>>
    /\ UNCHANGED <<table, request, response, submitted, hist, concVars>>

(***************************************************************************)
(* Specifications                                                          *)
(***************************************************************************)
\* the table as the migration leaves it, no request handled yet
InitStore ==
    /\ table = <<>>
    /\ request = NoRequest
    /\ response = NoResponse
    /\ submitted = {}
    /\ hist = <<>>
    /\ pc = [r \in Slots |-> "idle"]
    /\ cur = [r \in Slots |-> NoSubmission]
    /\ existing = [r \in Slots |-> <<>>]
    /\ reply = [r \in Slots |-> NoResponse]
    /\ base = <<>>
    /\ batch = <<>>
    /\ started = 0

Init ==
    /\ InitStore
    /\ raw = <<>> /\ norm1 = <<>> /\ norm2 = <<>> /\ stage = "input"

InitNorm ==
    /\ InitStore
    /\ raw \in RawStrings
    /\ norm1 = <<>> /\ norm2 = <<>> /\ stage = "input"

\* concurrent invocations
Next == \E r \in Slots : (\E req \in ConcRequests : Begin(r, req)) \/ Write(r)

Spec == Init /\ [][Next]_vars

\* requests handled one at a time
SpecSeq == Init /\ [][FetchSeq]_vars

SpecRoute == Init /\ [][FetchRoute]_vars

SpecName == Init /\ [][FetchName]_vars

SpecHist == Init /\ [][FetchHist]_vars

NextNorm == NormalizeOnce \/ NormalizeTwice

SpecNorm == InitNorm /\ [][NextNorm]_vars

(***************************************************************************)
(* Claims                                                                  *)
(***************************************************************************)
\* the submission run alone against tbl: lookup, decision, statement
SubmitAlone(tbl, sub) == Run(Reconcile(Lookup(tbl, sub.name), sub).stmt, sub, tbl)

\* C1: under any interleaving of submissions, no step lowers the score_value
\* stored in a row.
C1_ScoreNeverDecreases ==
    [][\A i \in DOMAIN table :
          table'[i].score_value >= table[i].score_value]_vars

\* C2: in every reachable state no two rows of the table carry the same name.
C2_OneRowPerName ==
    \A i, j \in DOMAIN table : i # j => table[i].name # table[j].name

\* C3: when two submissions for one name have run concurrently and both are
\* done, the rows stored for the name are those that running the two one
\* after the other, in one of the two orders, leaves.
C3_SerializablePerName ==
    (Quiet /\ Len(batch) = 2 /\ batch[1].name = batch[2].name) =>
        LET n  == batch[1].name
            ab == SubmitAlone(SubmitAlone(base, batch[1]), batch[2])
            ba == SubmitAlone(SubmitAlone(base, batch[2]), batch[1])
        IN  SelectWhereName(table, n) \in
                {SelectWhereName(ab, n), SelectWhereName(ba, n)}

\* a request that passes the dispatch and the input checks
Valid(req) == Dispatch(req).kind = "submit"

\* C4: run alone, a valid submission whose score_value is greater than the
\* stored one leaves the record with the submitted score_value and
\* time_score (0 included) and is answered 200 "Score and time updated".
C4_HigherScoreUpdatesBoth ==
    [][LET req  == request'
           name == normalize(req.body.name)
           ex   == Lookup(table, name)
       IN  (/\ Valid(req) /\ ex # <<>>
            /\ req.body.time.kind = "num"
            /\ req.body.score.v > ex[1].score_value)
           => /\ SelectWhereName(table', name)
                    = <<Row(name, req.body.score.v, req.body.time.v)>>
              /\ response' = Response(200, "message", "Score and time updated", <<>>)
      ]_vars

C4_Witness ==
    /\ response.text = "Score and time updated"
    /\ request.body.time = Num(0)
    /\ request.body.score = Num(100)
    /\ Row(normalize(request.body.name), 100, 0) \in {table[i] : i \in DOMAIN table}

\* C5: run alone, a valid submission with score_value <= the stored one and
\* time_score > 0 sets the record's time_score to the submitted one, leaves
\* its score_value and every other record as they were, and is answered 200
\* "Time score updated".
C5_LowerScoreUpdatesTimeOnly ==
    [][LET req  == request'
           name == normalize(req.body.name)
           ex   == Lookup(table, name)
       IN  (/\ Valid(req) /\ ex # <<>>
            /\ req.body.time.kind = "num" /\ req.body.time.v > 0
            /\ req.body.score.v <= ex[1].score_value)
           => /\ Len(table') = Len(table)
              /\ \A i \in DOMAIN table :
                    IF table[i].name = name
                    THEN table'[i] = Row(name, table[i].score_value, req.body.time.v)
                    ELSE table'[i] = table[i]
              /\ response' = Response(200, "message", "Time score updated", <<>>)
      ]_vars

C5_Witness ==
    /\ response.text = "Time score updated"
    /\ request.body = Body(Bob, Num(42), Num(10))
    /\ Row(BOB, 100, 10) \in {table[i] : i \in DOMAIN table}
    /\ Row(ALICE, 42, 0) \in {table[i] : i \in DOMAIN table}

C7_NewNameInsertsOneRow ==
    [][LET req  == request'
           name == normalize(req.body.name)
       IN  /\ (/\ Valid(req) /\ Lookup(table, name) = <<>>
               /\ req.body.time.kind = "num")
              => /\ table' = table \o <<Row(name, req.body.score.v, req.body.time.v)>>
                 /\ response' = Response(200, "message", "Score saved", <<>>)
           /\ (req.body = Body(Alice, Num(42), Num(10)) /\ Valid(req) /\ table = <<>>)
              => table' = <<Row(ALICE, 42, 10)>>
      ]_vars

C7_Witness ==
    /\ request.body = Body(Alice, Num(42), Num(10))
    /\ response.text = "Score saved"
    /\ table = <<Row(ALICE, 42, 10)>>

\* the submissions of h for name n, in order
SubsOf(h, n) == SelectSeq(h, LAMBDA s : s.name = n)

MaxScore(subs) ==
    CHOOSE m \in {subs[i].newScore : i \in DOMAIN subs} :
        \A i \in DOMAIN subs : subs[i].newScore <= m

\* submission k was the first, raised the score, or carried time_score > 0
Qualifies(subs, k) ==
    \/ k = 1
    \/ subs[k].newScore > MaxScore(SubSeq(subs, 1, k - 1))
    \/ subs[k].timeScore > 0

LastQualifying(subs) ==
    CHOOSE k \in DOMAIN subs :
        Qualifies(subs, k) /\ \A j \in DOMAIN subs : j > k => ~Qualifies(subs, j)

C9_NormalizeIdempotent == stage = "twice" => norm2 = norm1

\* two raw names that differ only in letter case, only in leading or trailing
\* whitespace, or only beyond the tenth character
DifferOnlyInCaseSpaceOrTail(r1, r2) ==
    \/ toUpperCase(r1) = toUpperCase(r2)
    \/ trim(r1) = trim(r2)
    \/ substring(r1, NameMax) = substring(r2, NameMax)

\* C10: once two valid submissions whose raw names differ only in case,
\* outer whitespace or characters beyond the tenth have both been handled,
\* the table holds one row for the two of them.
C10_SameRecordForEquivalentNames ==
    \A r1, r2 \in submitted :
        DifferOnlyInCaseSpaceOrTail(r1, r2) =>
            Cardinality({i \in DOMAIN table :
                            table[i].name \in {normalize(r1), normalize(r2)}}) = 1

\* a POST /api/scores that reaches the input checks: binding present, JSON
\* content type, a body that parses
ReachesChecks(req) ==
    /\ req.method = "POST" /\ req.path = "/api/scores" /\ req.db
    /\ req.contentType \in {"application/json", "application/json;charset=UTF-8"}
    /\ req.json

\* the name is empty once trimmed
EmptyName(body) == \A i \in DOMAIN body.name : body.name[i] = " "

\* the score is absent, no number, or negative
BadScore(body) == body.score.kind # "num" \/ body.score.v < 0

\* C11: a submission whose name is empty after normalization is answered 400
\* "Name is required"; otherwise one whose score_value is absent, no integer
\* or negative is answered 400 "Invalid or missing score_value"; either way
\* the table is unchanged and no record is created.
C11_InvalidInputRejected ==
    [][LET req == request'
       IN  (ReachesChecks(req) /\ (EmptyName(req.body) \/ BadScore(req.body)))
           => /\ response' = Response(400, "error",
                    IF EmptyName(req.body) THEN "Name is required"
                    ELSE "Invalid or missing score_value", <<>>)
              /\ table' = table
      ]_vars

C11_Witness ==
    /\ request.body = Body(Bob, Num(-5), Absent)
    /\ ReachesChecks(request)
    /\ response = Response(400, "error", "Invalid or missing score_value", <<>>)
    /\ table = <<Row(ALICE, 42, 10)>>

\* C12: a valid submission whose time_score is absent or no integer is
\* reconciled as if it carried time_score 0: a new name is inserted with
\* time_score 0, a higher score stores time_score 0, and a score that is not
\* higher changes nothing.
C12_MissingTimeIsZero ==
    [][LET req  == request'
           name == normalize(req.body.name)
           ex   == Lookup(table, name)
       IN  (Valid(req) /\ req.body.time.kind \in {"absent", "text"})
           => IF ex = <<>>
              THEN table' = table \o <<Row(name, req.body.score.v, 0)>>
              ELSE IF req.body.score.v > ex[1].score_value
              THEN SelectWhereName(table', name) = <<Row(name, req.body.score.v, 0)>>
              ELSE table' = table
      ]_vars

\* C13: every stored time_score, like every stored score_value, is a
\* non-negative integer.
C13_StoredValuesNonNegative ==
    \A i \in DOMAIN table :
        /\ ~IsNaN(table[i].score_value) /\ table[i].score_value >= 0
        /\ ~IsNaN(table[i].time_score) /\ table[i].time_score >= 0

\* the number of times row x occurs in the sequence rows
Occurrences(rows, x) == Cardinality({i \in DOMAIN rows : rows[i] = x})

\* C14: GET /api/leaderboard (binding present) is answered 200 with
\* success true and a list that holds every stored row exactly as often as
\* the table does, in non-increasing order of score_value; on the empty
\* table the list is empty and the status still 200; the table is unchanged.
C14_LeaderboardCompleteAndSorted ==
    [][LET req == request'
           res == response'.results
       IN  (req.method = "GET" /\ req.path = "/api/leaderboard" /\ req.db)
           => /\ response'.status = 200
              /\ response'.body = "results"
              /\ Len(res) = Len(table)
              /\ \A i \in DOMAIN table :
                    Occurrences(res, table[i]) = Occurrences(table, table[i])
              /\ \A i, j \in DOMAIN res :
                    i < j => res[i].score_value >= res[j].score_value
              /\ table' = table
      ]_vars

C14_Witness ==
    /\ request.method = "GET" /\ request.path = "/api/leaderboard" /\ request.db
    /\ table = <<Row(ALICE, 42, 10), Row(CARL, 42, 0), Row(BOB, 100, 0)>>
    /\ response.status = 200
    /\ response.results = <<Row(BOB, 100, 0), Row(CARL, 42, 0), Row(ALICE, 42, 10)>>

C14_WitnessEmpty ==
    /\ request.method = "GET" /\ request.path = "/api/leaderboard" /\ request.db
    /\ table = <<>>
    /\ response = Response(200, "results", "", <<>>)

\* C15: with the binding present, a POST /api/scores whose Content-Type is
\* missing or names no JSON is answered 415 "Request body must be JSON",
\* whether or not the body parses and whatever its fields, and the table is
\* unchanged.
C15_NonJsonContentTypeIs415 ==
    [][LET req == request'
       IN  (/\ req.method = "POST" /\ req.path = "/api/scores" /\ req.db
            /\ req.contentType \in {"", "text/plain"})
           => /\ response' = Response(415, "error", "Request body must be JSON", <<>>)
              /\ table' = table
      ]_vars

C15_Witness ==
    /\ request = Request("POST", "/api/scores", TRUE, "text/plain", TRUE,
                         Body(Bob, Num(42), Num(10)))
    /\ response.status = 415
    /\ table = <<Row(ALICE, 42, 10)>>

\* C16: with the binding present, a HEAD request to any path, the two route
\* paths included, is answered 200 with no body and leaves the table
\* unchanged.
C16_HeadIsBare200 ==
    [][LET req == request'
       IN  (req.method = "HEAD" /\ req.db)
           => /\ response' = Response(200, "none", "", <<>>)
              /\ table' = table
      ]_vars

C16_Witness ==
    /\ request.method = "HEAD" /\ request.path = "/api/other" /\ request.db
    /\ response = Response(200, "none", "", <<>>)
    /\ table # <<>>

\* C17: with the binding missing, every request but a preflight is answered
\* 500 "Database binding not configured" and the table is unchanged; a
\* preflight (OPTIONS) is answered 200 with no body, binding or not.
C17_MissingBindingIs500 ==
    [][LET req == request'
       IN  /\ (req.method # "OPTIONS" /\ ~req.db)
              => /\ response' = Response(500, "error",
                                    "Database binding not configured", <<>>)
                 /\ table' = table
           /\ req.method = "OPTIONS"
              => /\ response' = Response(200, "none", "", <<>>)
                 /\ table' = table
      ]_vars

C17_Witness ==
    /\ request = Request("POST", "/api/scores", FALSE, "application/json", TRUE,
                         Body(Bob, Num(42), Num(10)))
    /\ response.status = 500
    /\ response.text = "Database binding not configured"
    /\ table = <<Row(ALICE, 42, 10)>>

C17_WitnessPreflight ==
    /\ request.method = "OPTIONS" /\ ~request.db
    /\ response = Response(200, "none", "", <<>>)

\* C18: with the binding present, a request under /api/ that is neither
\* GET /api/leaderboard nor POST /api/scores nor a HEAD nor an OPTIONS is
\* answered 404 "API Endpoint Not Found: <method> <path>" with its own
\* method and path, and the table is unchanged.
C18_UnknownApiRouteIs404 ==
    [][LET req == request'
       IN  (/\ req.db
            /\ req.path \in {"/api/leaderboard", "/api/scores", "/api/other"}
            /\ req.method \notin {"HEAD", "OPTIONS"}
            /\ <<req.method, req.path>> \notin
                  {<<"GET", "/api/leaderboard">>, <<"POST", "/api/scores">>})
           => /\ response'.status = 404
              /\ response'.body = "error"
              /\ response'.text =
                    "API Endpoint Not Found: " \o req.method \o " " \o req.path
              /\ table' = table
      ]_vars

C18_Witness ==
    /\ request.method = "DELETE" /\ request.path = "/api/scores" /\ request.db
    /\ response = Response(404, "error",
                           "API Endpoint Not Found: DELETE /api/scores", <<>>)
    /\ table # <<>>

\* C19: every request gets one response; an error is returned as the JSON
\* error envelope; a request that matches no route is answered 404.
C19_OneResponseUnmatchedIs404 ==
    [][LET req == request'
       IN  /\ response'.status \in {200, 400, 404, 415, 500}
           /\ response'.status >= 400 => response'.body = "error"
           /\ (/\ req.db
               /\ req.method \notin {"OPTIONS", "HEAD"}
               /\ <<req.method, req.path>> \notin
                     {<<"GET", "/api/leaderboard">>, <<"POST", "/api/scores">>})
              => response'.status = 404
      ]_vars

\* C20: under any interleaving, every row stays in the table, under its
\* name, from each state to the next: no step removes a record.
C20_RowsNeverRemoved ==
    [][/\ Len(table') >= Len(table)
       /\ \A i \in DOMAIN table : table'[i].name = table[i].name]_vars

C20_Witness ==
    /\ Len(table) = 2
    /\ \E i, j \in DOMAIN table : table[i].name # table[j].name
    /\ \E r \in Slots : reply[r].text = "Score and time updated"
    /\ Quiet

====
